---- MODULE Spec2Model ----
(***************************************************************************)
(* Model of the bundle-size reporter:                                      *)
(*   src/report-bundle-size.js                    (the analysis run)       *)
(*   src/scripts/append-extended-bundle-comment.js (the comment script)    *)
(*                                                                         *)
(* Conventions                                                             *)
(*  - a path is the sequence of its segments ("./a.js" is <<".","a.js">>), *)
(*    so that path.join's normalisation is computed, not assumed;          *)
(*  - a JavaScript object is the sequence of its entries [k |-> , v |-> ]  *)
(*    in insertion order, keys unique (Object.keys order is that order);   *)
(*  - a value that may be null/undefined/absent is a sequence of length    *)
(*    0 or 1;                                                              *)
(*  - a file's content is the record of what the run measures of it:       *)
(*    its utf8 byte length and the byte length of its gzip stream.         *)
(***************************************************************************)
EXTENDS Integers, Sequences, FiniteSets, TLC

VARIABLES
  rootMainFiles,     \* buildMeta.rootMainFiles: sequence of script paths
  appDirPages,       \* appDirMeta.pages: object pagePath -> sequence of script paths
  appPathRoutes,     \* app-path-routes-manifest.json: object sourceLike -> routePath
  disk,              \* files below the build output root: resolved path -> content
  baseDisk,          \* the same files in the base checkout
  analysisFile,      \* analyze/__bundle_analysis.json
  extendedFile,      \* analyze/__bundle_analysis_extended.json
  baseAnalysisFile,  \* analyze/base/bundle/__bundle_analysis.json
  baseExtendedFile,  \* analyze/base/bundle/__bundle_analysis_extended.json
  commentFile,       \* analyze/__bundle_analysis_comment.txt: the fragments written
  memoryCache,       \* the run's memoryCache: resolved path -> <<raw, gzip>>
  probes,            \* history: how often the file system was consulted per path
  firstSize,         \* history: what the first getScriptSize call per path returned
  lastCall,          \* history: the latest getScriptSize call, [path, size]
  nCalls,            \* getScriptSize calls made so far in the measured run
  previousAnalysis,  \* what the run loaded from analysisPath (absent = null)
  outputJson,        \* the snapshot of the current run
  log,               \* what logDiffs reported
  runs               \* completed runs of report-bundle-size

vars == <<rootMainFiles, appDirPages, appPathRoutes, disk, baseDisk,
          analysisFile, extendedFile, baseAnalysisFile, baseExtendedFile,
          commentFile, memoryCache, probes, firstSize, lastCall, nCalls,
          previousAnalysis, outputJson, log, runs>>

buildVars   == <<rootMainFiles, appDirPages, appPathRoutes>>
docVars     == <<analysisFile, extendedFile, baseAnalysisFile, baseExtendedFile,
                 commentFile>>
measureVars == <<memoryCache, probes, firstSize, lastCall, nCalls>>
runVars     == <<previousAnalysis, outputJson, log, runs>>

----------------------------------------------------------------------------
(* Bounds *)

MaxList  == 2   \* longest script list of a manifest
MaxCalls == 3   \* getScriptSize calls followed in one run
MaxBytes == 2   \* largest raw/gzip size of a drawn snapshot entry
MaxRuns  == 2   \* consecutive runs of report-bundle-size followed

----------------------------------------------------------------------------
(* Generic helpers *)

SeqsUpTo(S, n) == UNION {[1..k -> S] : k \in 0..n}

Range(s) == {s[i] : i \in 1..Len(s)}

Abs(n) == IF n < 0 THEN -n ELSE n

\* the element of a one-element set: Only({F(x) : x \in {e}}) is F(e) with e
\* evaluated once
Only(S) == CHOOSE x \in S : TRUE

RECURSIVE Without(_, _)
\* s.filter((x) => !excl.includes(x))
Without(s, excl) ==
  IF s = <<>> THEN <<>>
  ELSE IF Head(s) \in Range(excl) THEN Without(Tail(s), excl)
       ELSE <<Head(s)>> \o Without(Tail(s), excl)

RECURSIVE Dedupe(_, _)
\* new Set([...s]) iterated: first occurrences in order
Dedupe(seen, s) ==
  IF s = <<>> THEN <<>>
  ELSE IF Head(s) \in seen THEN Dedupe(seen, Tail(s))
       ELSE <<Head(s)>> \o Dedupe(seen \cup {Head(s)}, Tail(s))

SetOf(s) == Dedupe({}, s)

RECURSIVE Flat(_)
\* Array.prototype.flat of a sequence of sequences
Flat(ss) == IF ss = <<>> THEN <<>> ELSE Head(ss) \o Flat(Tail(ss))

(* Objects *)
Keys(o)   == [i \in 1..Len(o) |-> o[i].k]
Values(o) == [i \in 1..Len(o) |-> o[i].v]
Has(o, k) == \E i \in 1..Len(o) : o[i].k = k
Get(o, k) == o[CHOOSE i \in 1..Len(o) : o[i].k = k].v
\* o[k]: absent (undefined) or the value
Lookup(o, k) == IF Has(o, k) THEN <<Get(o, k)>> ELSE <<>>
\* o[k] = v: overwrite in place, else append
Put(o, k, v) ==
  IF Has(o, k) THEN [i \in 1..Len(o) |-> IF o[i].k = k THEN [k |-> k, v |-> v] ELSE o[i]]
  ELSE Append(o, [k |-> k, v |-> v])

RECURSIVE Spread(_, _)
\* { ...acc, ...o }
Spread(acc, o) ==
  IF o = <<>> THEN acc ELSE Spread(Put(acc, Head(o).k, Head(o).v), Tail(o))

----------------------------------------------------------------------------
(* Paths *)

RECURSIVE normalize(_, _)
normalize(acc, rest) ==
  IF rest = <<>> THEN acc
  ELSE LET s == Head(rest) IN
       IF s = "." THEN normalize(acc, Tail(rest))
       ELSE IF s = ".." /\ acc # <<>> /\ acc[Len(acc)] # ".."
            THEN normalize(SubSeq(acc, 1, Len(acc) - 1), Tail(rest))
            ELSE normalize(Append(acc, s), Tail(rest))

pathJoin(a, b) == normalize(<<>>, a \o b)

cwd == <<"repo">>
BUILD_OUTPUT_DIRECTORY == <<".next">>
nextMetaRoot == pathJoin(cwd, BUILD_OUTPUT_DIRECTORY)

ScriptPaths == {<<"a.js">>, <<".", "a.js">>, <<"b.js">>}
DiskFiles   == {pathJoin(nextMetaRoot, p) : p \in ScriptPaths}
Contents    == {[bytes |-> 30, deflated |-> 12], [bytes |-> 50, deflated |-> 21]}
FileStates  == {<<>>} \cup {<<c>> : c \in Contents}
Disks       == [DiskFiles -> FileStates]

existsSync(fs, p) == p \in DOMAIN fs /\ fs[p] # <<>>
byteLength(content) == content.bytes
gzSize(content)     == content.deflated

----------------------------------------------------------------------------
(* SizeMeasurer: getScriptSize.  m is the measuring state of the run,      *)
(* [cache |-> memoryCache, probes |-> file-system consultations].          *)

NoProbes == [f \in DiskFiles |-> 0]
FreshMeasure == [cache |-> <<>>, probes |-> NoProbes]
Cached(m, p) == p \in DOMAIN m.cache

Measure(fs, p) ==
  IF ~existsSync(fs, p) THEN <<0, 0>>
  ELSE <<byteLength(fs[p][1]), gzSize(fs[p][1])>>

Bump(pr, p) == [pr EXCEPT ![p] = @ + 1]

\* a slip: only files that exist are remembered
getScriptSize_ForgetMissing(m, fs, scriptPath) ==
  LET p == pathJoin(nextMetaRoot, scriptPath) IN
  IF Cached(m, p) THEN [m |-> m, size |-> m.cache[p]]
  ELSE LET sz == Measure(fs, p) IN
       [m |-> [cache  |-> IF existsSync(fs, p) THEN m.cache @@ (p :> sz) ELSE m.cache,
               probes |-> Bump(m.probes, p)],
        size |-> sz]

getScriptSize(m, fs, scriptPath) ==
  LET p == pathJoin(nextMetaRoot, scriptPath) IN
  IF Cached(m, p) THEN [m |-> m, size |-> m.cache[p]]
  ELSE LET sz == Measure(fs, p) IN
       [m |-> [cache |-> m.cache @@ (p :> sz), probes |-> Bump(m.probes, p)],
        size |-> sz]

----------------------------------------------------------------------------
(* Aggregator: getScriptSizes *)

ZeroSize == [raw |-> 0, gzip |-> 0]

RECURSIVE sumSizes(_, _, _, _)
\* the reduce of getScriptSizes: one getScriptSize call and one addition per entry
sumSizes(m, fs, acc, rest) ==
  IF rest = <<>> THEN [m |-> m, total |-> acc]
  ELSE Only({ sumSizes(r.m, fs,
                        [raw |-> acc.raw + r.size[1], gzip |-> acc.gzip + r.size[2]],
                        Tail(rest)) :
               r \in {getScriptSize(m, fs, Head(rest))} })

\* a slip: the list is passed through a Set before it is summed
getScriptSizes_Distinct(m, fs, scriptPaths) ==
  sumSizes(m, fs, ZeroSize, SetOf(scriptPaths))

getScriptSizes(m, fs, scriptPaths) == sumSizes(m, fs, ZeroSize, scriptPaths)

----------------------------------------------------------------------------
(* RouteResolver: resolveSourceFile.  A source-like key "/about/page" is   *)
(* <<"", "about", "page">>; a source file is [stem |-> segments, ext |->]. *)

exts == <<"tsx", "ts", "jsx", "js", "mdx">>

stripLeadingSlash(sourceLike) ==
  IF sourceLike # <<>> /\ Head(sourceLike) = "" THEN Tail(sourceLike) ELSE sourceLike

pathRelative(from, to) ==
  IF Len(to) >= Len(from) /\ SubSeq(to, 1, Len(from)) = from
  THEN SubSeq(to, Len(from) + 1, Len(to)) ELSE to

RECURSIVE firstExisting(_, _, _)
\* the for-loop over exts: the first candidate that exists, else absent
firstExisting(tree, stem, es) ==
  IF es = <<>> THEN <<>>
  ELSE LET candidate == [stem |-> pathJoin(cwd, stem), ext |-> Head(es)] IN
       IF candidate \in tree
       THEN <<[stem |-> pathRelative(cwd, candidate.stem), ext |-> candidate.ext]>>
       ELSE firstExisting(tree, stem, Tail(es))

resolveSourceFile(tree, sourceLike) ==
  LET rel   == pathJoin(<<"app">>, stripLeadingSlash(sourceLike))
      page  == firstExisting(tree, rel, exts)
      route == firstExisting(tree, rel \o <<"route">>, exts)
  IN IF page # <<>> THEN page ELSE route

\* the source tree of the checkout: app/page.tsx, a stale app/page.js beside it,
\* and a route handler app/about/page/route.ts; nothing else
srcTree == {[stem |-> <<"repo", "app", "page">>, ext |-> "tsx"],
            [stem |-> <<"repo", "app", "page">>, ext |-> "js"],
            [stem |-> <<"repo", "app", "about", "page", "route">>, ext |-> "ts"]}

----------------------------------------------------------------------------
(* Snapshot construction: the top level of report-bundle-size.js *)

RECURSIVE reducePages(_, _, _, _, _)
\* allAppDirSizes: per page, getScriptSizes of the paths not in the global list
reducePages(m, fs, globalAppDirBundle, acc, entries) ==
  IF entries = <<>> THEN [m |-> m, sizes |-> acc]
  ELSE Only({ reducePages(r.m, fs, globalAppDirBundle,
                           Put(acc, Head(entries).k, r.total), Tail(entries)) :
               r \in {getScriptSizes(m, fs,
                                     Without(Head(entries).v, globalAppDirBundle))} })

\* a slip: the page lists are summed unfiltered
allAppDirSizes_Unfiltered(m, fs, globalAppDirBundle, pages) ==
  reducePages(m, fs, <<>>, <<>>, pages)

allAppDirSizes(m, fs, globalAppDirBundle, pages) ==
  reducePages(m, fs, globalAppDirBundle, <<>>, pages)

allFiles(globalAppDirBundle, pages) ==
  SetOf(globalAppDirBundle \o Flat(Values(pages)))

RECURSIVE measureFiles(_, _, _, _)
measureFiles(m, fs, acc, files) ==
  IF files = <<>> THEN [m |-> m, sizes |-> acc]
  ELSE Only({ measureFiles(r.m, fs,
                            Put(acc, Head(files), [raw |-> r.size[1], gzip |-> r.size[2]]),
                            Tail(files)) :
               r \in {getScriptSize(m, fs, Head(files))} })

\* a slip: only the page lists are walked
fileSizes_PagesOnly(m, fs, globalAppDirBundle, pages) ==
  measureFiles(m, fs, <<>>, SetOf(Flat(Values(pages))))

fileSizes(m, fs, globalAppDirBundle, pages) ==
  measureFiles(m, fs, <<>>, allFiles(globalAppDirBundle, pages))

RECURSIVE reduceRoutes(_, _)
reduceRoutes(acc, entries) ==
  IF entries = <<>> THEN acc
  ELSE LET e == Head(entries) IN
       reduceRoutes(Put(acc, e.v, [source |-> e.k,
                                   sourceFile |-> resolveSourceFile(srcTree, e.k)]),
                    Tail(entries))

routeToSource(routes) == reduceRoutes(<<>>, routes)

\* the run's measuring and its outputJson, from the manifests and the disk:
\* the global total, then the page totals, then the per-file sizes, one cache
Snapshot(fs, globalAppDirBundle, pages, routes) ==
  Only({ Only({ Only({
    [m   |-> fl.m,
     out |-> << [k |-> "__global",        v |-> g.total],
                [k |-> "__pages",         v |-> ps.sizes],
                [k |-> "__files",         v |-> fl.sizes],
                [k |-> "__routes",        v |-> routeToSource(routes)],
                [k |-> "__rootMainFiles", v |-> globalAppDirBundle] >>] :
      fl \in {fileSizes(ps.m, fs, globalAppDirBundle, pages)} }) :
      ps \in {allAppDirSizes(g.m, fs, globalAppDirBundle, pages)} }) :
      g  \in {getScriptSizes(FreshMeasure, fs, globalAppDirBundle)} })

compatJson(out) ==
  Spread(<<[k |-> "__global", v |-> Get(out, "__global")]>>, Get(out, "__pages"))

(* JSON files.  The documents hold integers, strings, null, arrays and     *)
(* objects with non-numeric keys only: JSON.stringify then JSON.parse      *)
(* gives back the same values and key order.  A file holds the document.   *)
writeJson(doc) == <<doc>>
readJsonSafe(file) == file

\* prev?.key || fallback, on a document that may be null
Field(optDoc, key, fallback) ==
  IF Len(optDoc) = 0 THEN fallback
  ELSE IF Has(optDoc[1], key) THEN Get(optDoc[1], key) ELSE fallback

----------------------------------------------------------------------------
(* DiffEngine: logDiffs *)

delta(c, p) == [raw |-> c.raw - p.raw, gzip |-> c.gzip - p.gzip]
nonZero(d)  == d.raw # 0 \/ d.gzip # 0

\* new Set([...Object.keys(a), ...Object.keys(b)]) in iteration order
unionKeys(a, b) == SetOf(Keys(a) \o Keys(b))

NoFileLists == [changedFiles |-> <<>>, newFiles |-> <<>>, removedFiles |-> <<>>]

\* one turn of the loop over fileKeys
classifyFile(acc, key, prevFiles, currFiles) ==
  LET p == Lookup(prevFiles, key)
      c == Lookup(currFiles, key)
  IN IF p # <<>> /\ c = <<>>
     THEN [acc EXCEPT !.removedFiles = Append(@, [file |-> key, prev |-> p[1]])]
     ELSE IF p = <<>> /\ c # <<>>
     THEN [acc EXCEPT !.newFiles = Append(@, [file |-> key, curr |-> c[1]])]
     ELSE IF p # <<>> /\ c # <<>> /\ nonZero(delta(c[1], p[1]))
     THEN [acc EXCEPT !.changedFiles =
             Append(@, [file |-> key, prev |-> p[1], curr |-> c[1],
                        delta |-> delta(c[1], p[1])])]
     ELSE acc

RECURSIVE loopFiles(_, _, _, _)
loopFiles(acc, keys, prevFiles, currFiles) ==
  IF keys = <<>> THEN acc
  ELSE loopFiles(classifyFile(acc, Head(keys), prevFiles, currFiles),
                 Tail(keys), prevFiles, currFiles)

\* a slip: a file counts as changed only when its gzip size moved
filePass_GzipOnly(prevFiles, currFiles) ==
  LET r == loopFiles(NoFileLists, unionKeys(prevFiles, currFiles), prevFiles, currFiles)
  IN [r EXCEPT !.changedFiles =
        SelectSeq(r.changedFiles, LAMBDA f : f.delta.gzip # 0)]

filePass(prevFiles, currFiles) ==
  loopFiles(NoFileLists, unionKeys(prevFiles, currFiles), prevFiles, currFiles)

RECURSIVE loopPages(_, _, _, _)
loopPages(acc, keys, prevPages, currPages) ==
  IF keys = <<>> THEN acc
  ELSE LET key == Head(keys)
           p == IF Has(prevPages, key) THEN Get(prevPages, key) ELSE ZeroSize
           c == IF Has(currPages, key) THEN Get(currPages, key) ELSE ZeroSize
           d == delta(c, p)
       IN loopPages(IF nonZero(d)
                    THEN Append(acc, [page |-> key, prev |-> p, curr |-> c, delta |-> d])
                    ELSE acc,
                    Tail(keys), prevPages, currPages)

\* a slip: a page missing on either side is skipped
pagePass_BothSides(prevPages, currPages) ==
  SelectSeq(loopPages(<<>>, unionKeys(prevPages, currPages), prevPages, currPages),
            LAMBDA e : Has(prevPages, e.page) /\ Has(currPages, e.page))

pagePass(prevPages, currPages) ==
  loopPages(<<>>, unionKeys(prevPages, currPages), prevPages, currPages)

\* a slip: the removed routes are filtered against the wrong side
removedRoutes_WrongSide(prevRoutes, currRoutes) ==
  SelectSeq(SetOf(Keys(prevRoutes)), LAMBDA r : ~Has(prevRoutes, r))

newRoutes(prevRoutes, currRoutes) ==
  SelectSeq(SetOf(Keys(currRoutes)), LAMBDA r : ~Has(prevRoutes, r))

removedRoutes(prevRoutes, currRoutes) ==
  SelectSeq(SetOf(Keys(prevRoutes)), LAMBDA r : ~Has(currRoutes, r))

\* what logDiffs prints, as data: the JSON line, then the lists in print order
logDiffs(prev, curr) ==
  LET prevGlobal == Field(prev, "__global", ZeroSize)
      currGlobal == Field(<<curr>>, "__global", ZeroSize)
      prevFiles  == Field(prev, "__files", <<>>)
      currFiles  == Field(<<curr>>, "__files", <<>>)
      prevPages  == Field(prev, "__pages", <<>>)
      currPages  == Field(<<curr>>, "__pages", <<>>)
      prevRoutes == Field(prev, "__routes", <<>>)
      currRoutes == Field(<<curr>>, "__routes", <<>>)
      rootFiles  == Field(<<curr>>, "__rootMainFiles", <<>>)
      files      == filePass(prevFiles, currFiles)
      added      == newRoutes(prevRoutes, currRoutes)
      gone       == removedRoutes(prevRoutes, currRoutes)
  IN [global        |-> currGlobal,
      delta_global  |-> delta(currGlobal, prevGlobal),
      changedFiles  |-> files.changedFiles,
      newFiles      |-> files.newFiles,
      removedFiles  |-> files.removedFiles,
      pageChanges   |-> pagePass(prevPages, currPages),
      newRoutes     |-> [i \in 1..Len(added) |->
                           [route |-> added[i],
                            info  |-> Get(currRoutes, added[i]),
                            uses  |-> [j \in 1..Len(rootFiles) |->
                                         [file |-> rootFiles[j],
                                          size |-> IF Has(currFiles, rootFiles[j])
                                                   THEN Get(currFiles, rootFiles[j])
                                                   ELSE ZeroSize]]]],
      removedRoutes |-> [i \in 1..Len(gone) |->
                           [route |-> gone[i], info |-> Get(prevRoutes, gone[i])]]]

----------------------------------------------------------------------------
(* The comment script: append-extended-bundle-comment.js *)

\* readJsonSafe(primary) || readJsonSafe(extended): a parsed object is truthy
preferPrimary(primary, extended) ==
  IF Len(readJsonSafe(primary)) > 0 THEN readJsonSafe(primary) ELSE readJsonSafe(extended)

NoRows == [changed |-> <<>>, added |-> <<>>, removed |-> <<>>]

\* one turn of the loop over keys
classifyRow(acc, k, currFiles, baseFiles) ==
  LET c == Lookup(currFiles, k)
      b == Lookup(baseFiles, k)
  IN IF c # <<>> /\ b = <<>>
     THEN [acc EXCEPT !.added = Append(@, [file |-> k, raw |-> c[1].raw, gzip |-> c[1].gzip])]
     ELSE IF c = <<>> /\ b # <<>>
     THEN [acc EXCEPT !.removed = Append(@, [file |-> k, raw |-> b[1].raw, gzip |-> b[1].gzip])]
     ELSE IF c # <<>> /\ b # <<>> /\ nonZero(delta(c[1], b[1]))
     THEN [acc EXCEPT !.changed =
             Append(@, [file |-> k, raw |-> c[1].raw, gzip |-> c[1].gzip,
                        dRaw |-> c[1].raw - b[1].raw, dGzip |-> c[1].gzip - b[1].gzip])]
     ELSE acc

RECURSIVE loopRows(_, _, _, _)
loopRows(acc, keys, currFiles, baseFiles) ==
  IF keys = <<>> THEN acc
  ELSE loopRows(classifyRow(acc, Head(keys), currFiles, baseFiles),
                Tail(keys), currFiles, baseFiles)

\* a slip: the comparator without Math.abs
compareChanged_Signed(a, b) ==
  IF b.dGzip - a.dGzip # 0 THEN b.dGzip - a.dGzip ELSE b.dRaw - a.dRaw

\* the comparator of changed.sort: x || y is y when x is 0
compareChanged(a, b) ==
  IF Abs(b.dGzip) - Abs(a.dGzip) # 0
  THEN Abs(b.dGzip) - Abs(a.dGzip)
  ELSE Abs(b.dRaw) - Abs(a.dRaw)

RECURSIVE insertSorted(_, _)
\* x goes behind every element that does not sort after it (the sort is stable)
insertSorted(sorted, x) ==
  IF sorted = <<>> THEN <<x>>
  ELSE IF compareChanged(Head(sorted), x) <= 0
       THEN <<Head(sorted)>> \o insertSorted(Tail(sorted), x)
       ELSE <<x>> \o sorted

RECURSIVE sortChanged(_, _)
sortChanged(sorted, rest) ==
  IF rest = <<>> THEN sorted
  ELSE sortChanged(insertSorted(sorted, Head(rest)), Tail(rest))

\* the rows of the three tables of the fragment, in the order written; absent
\* when the script exits before writing
commentFragment(currPrimary, currExtended, basePrimary, baseExtended) ==
  LET curr == preferPrimary(currPrimary, currExtended)
      base == preferPrimary(basePrimary, baseExtended)
  IN IF Len(curr) = 0 THEN <<>>
     ELSE LET currFiles == Field(curr, "__files", <<>>)
              baseFiles == Field(base, "__files", <<>>)
              rows == loopRows(NoRows, unionKeys(currFiles, baseFiles),
                               currFiles, baseFiles)
          IN << [changed |-> sortChanged(<<>>, rows.changed),
                 added   |-> [i \in 1..Len(rows.added) |->
                                [file |-> rows.added[i].file,
                                 raw |-> rows.added[i].raw, gzip |-> rows.added[i].gzip,
                                 dRaw |-> rows.added[i].raw,
                                 dGzip |-> rows.added[i].gzip]],
                 removed |-> [i \in 1..Len(rows.removed) |->
                                [file |-> rows.removed[i].file,
                                 raw |-> rows.removed[i].raw, gzip |-> rows.removed[i].gzip,
                                 dRaw |-> -rows.removed[i].raw,
                                 dGzip |-> -rows.removed[i].gzip]]] >>

----------------------------------------------------------------------------
(* Inputs *)

Lists == SeqsUpTo(ScriptPaths, MaxList)

PageKeys == {"/page", "/about/page"}

\* objects over the keys K with values in V, in every insertion order
Objects(K, V) ==
  {o \in SeqsUpTo([k : K, v : V], Cardinality(K)) :
     \A i, j \in 1..Len(o) : o[i].k = o[j].k => i = j}

\* app-build-manifest.json pages: "/page" with any list, and "/about/page",
\* when built, loading the root files and b.js
PageManifests ==
  {<<>>} \cup
  UNION {{ <<[k |-> "/page", v |-> l]>>,
           <<[k |-> "/page", v |-> l],
             [k |-> "/about/page", v |-> <<<<"a.js">>, <<"b.js">>>>]>> } : l \in Lists}

\* app-path-routes-manifest.json: missing, or one route per page
RouteManifests ==
  { <<>>,
    <<[k |-> <<"", "page">>, v |-> "/"]>>,
    <<[k |-> <<"", "page">>, v |-> "/"],
      [k |-> <<"", "about", "page">>, v |-> "/about"]>> }

NoMeasure == /\ memoryCache = <<>>
             /\ probes = NoProbes
             /\ firstSize = <<>>
             /\ lastCall = <<>>
             /\ nCalls = 0

NoDocs == /\ analysisFile = <<>>
          /\ extendedFile = <<>>
          /\ baseAnalysisFile = <<>>
          /\ baseExtendedFile = <<>>
          /\ commentFile = <<>>

NoRun == /\ previousAnalysis = <<>>
         /\ outputJson = <<>>
         /\ log = <<>>
         /\ runs = 0

NoBuild == /\ rootMainFiles = <<>>
           /\ appDirPages = <<>>
           /\ appPathRoutes = <<>>

----------------------------------------------------------------------------
(* One run's getScriptSize calls, call by call *)

InitMeasure ==
  /\ disk \in Disks
  /\ baseDisk = disk
  /\ NoBuild /\ NoDocs /\ NoRun /\ NoMeasure

\* one call of getScriptSize, from anywhere in the run
GetScriptSizeCall ==
  /\ nCalls < MaxCalls
  /\ \E scriptPath \in ScriptPaths :
       \E r \in {getScriptSize([cache |-> memoryCache, probes |-> probes],
                                disk, scriptPath)},
          p \in {pathJoin(nextMetaRoot, scriptPath)} :
          /\ memoryCache' = r.m.cache
          /\ probes' = r.m.probes
          /\ firstSize' = IF p \in DOMAIN firstSize THEN firstSize
                          ELSE firstSize @@ (p :> r.size)
          /\ lastCall' = <<[path |-> p, size |-> r.size]>>
          /\ nCalls' = nCalls + 1
  /\ UNCHANGED <<buildVars, disk, baseDisk, docVars, runVars>>

\* the build output changes under the run: a file is written, rewritten or removed
TouchFile ==
  /\ \E f \in DiskFiles, st \in FileStates :
       /\ st # disk[f]
       /\ disk' = [disk EXCEPT ![f] = st]
  /\ UNCHANGED <<buildVars, baseDisk, docVars, measureVars, runVars>>

NextMeasure == GetScriptSizeCall \/ TouchFile

SpecMeasure == InitMeasure /\ [][NextMeasure]_vars

----------------------------------------------------------------------------
(* Runs of the two scripts *)

\* report-bundle-size.js from top to bottom, over the manifests and files fs,
\* reading prevFile; the documents it writes and what it logs
Run(fs, prevFile) ==
  Only({ [m |-> s.m, prev |-> prev, out |-> s.out, log |-> logDiffs(prev, s.out),
          compat |-> writeJson(compatJson(s.out)), extended |-> writeJson(s.out)] :
          s \in {Snapshot(fs, rootMainFiles, appDirPages, appPathRoutes)},
          prev \in {readJsonSafe(prevFile)} })

ReportBundleSize ==
  /\ runs < MaxRuns
  /\ \E r \in {Run(disk, analysisFile)} :
        /\ memoryCache' = r.m.cache
        /\ probes' = r.m.probes
        /\ previousAnalysis' = r.prev
        /\ outputJson' = <<r.out>>
        /\ log' = <<r.log>>
        /\ analysisFile' = r.compat
        /\ extendedFile' = r.extended
        /\ runs' = runs + 1
  /\ UNCHANGED <<buildVars, disk, baseDisk, baseAnalysisFile, baseExtendedFile,
                 commentFile, firstSize, lastCall, nCalls>>

\* the same script run once on the base checkout; its two documents are what
\* analyze/base/bundle holds
BaseReportBundleSize ==
  /\ baseAnalysisFile = <<>>
  /\ \E r \in {Run(baseDisk, <<>>)} :
        /\ baseAnalysisFile' = r.compat
        /\ baseExtendedFile' = r.extended
  /\ UNCHANGED <<buildVars, disk, baseDisk, analysisFile, extendedFile, commentFile,
                 measureVars, runVars>>

MaxComments == 1

\* append-extended-bundle-comment.js: exits when there is no current document,
\* else appends its fragment to the comment file (or creates it)
AppendExtendedBundleComment ==
  /\ Len(commentFile) < MaxComments
  /\ commentFile' = commentFile \o
       commentFragment(analysisFile, extendedFile, baseAnalysisFile, baseExtendedFile)
  /\ UNCHANGED <<buildVars, disk, baseDisk, analysisFile, extendedFile,
                 baseAnalysisFile, baseExtendedFile, measureVars, runVars>>

\* the runs are followed over the manifests with the shorter lists
ShortLists == SeqsUpTo(ScriptPaths, MaxList - 1)

ShortPageManifests ==
  {pm \in PageManifests : \A i \in 1..Len(pm) : pm[i].k = "/page" => pm[i].v \in ShortLists}

Init ==
  /\ rootMainFiles \in ShortLists
  /\ appDirPages \in ShortPageManifests
  /\ appPathRoutes \in RouteManifests
  /\ disk \in Disks
  /\ baseDisk \in Disks
  /\ NoDocs /\ NoRun /\ NoMeasure

Next == ReportBundleSize \/ BaseReportBundleSize \/ AppendExtendedBundleComment

Spec == Init /\ [][Next]_vars

----------------------------------------------------------------------------
(* Snapshot construction alone, over every manifest *)

FullRoutes == <<[k |-> <<"", "page">>, v |-> "/"],
                [k |-> <<"", "about", "page">>, v |-> "/about"]>>

InitSnapshot ==
  /\ rootMainFiles \in Lists
  /\ appDirPages \in PageManifests
  /\ appPathRoutes = FullRoutes
  /\ disk \in Disks
  /\ baseDisk = disk
  /\ NoDocs /\ NoRun /\ NoMeasure

\* the script down to outputJson: the totals, the per-file sizes, the routes
ConstructSnapshot ==
  /\ outputJson = <<>>
  /\ \E s \in {Snapshot(disk, rootMainFiles, appDirPages, appPathRoutes)} :
        /\ memoryCache' = s.m.cache
        /\ probes' = s.m.probes
        /\ outputJson' = <<s.out>>
  /\ UNCHANGED <<buildVars, disk, baseDisk, docVars, firstSize, lastCall, nCalls,
                 previousAnalysis, log, runs>>

NextSnapshot == ConstructSnapshot

SpecSnapshot == InitSnapshot /\ [][NextSnapshot]_vars

----------------------------------------------------------------------------
(* logDiffs and the comment script's classification, over drawn documents *)

SizeEntries   == {[raw |-> r, gzip |-> g] : r \in 1..MaxBytes, g \in 1..MaxBytes}
EntriesOrZero == SizeEntries \cup {ZeroSize}

FileKeys  == {<<"a.js">>, <<"b.js">>}
RouteKeys == {"/", "/about"}
RouteInfos ==
  {[source |-> <<"", "page">>, sourceFile |-> <<[stem |-> <<"app", "page">>, ext |-> "tsx"]>>],
   [source |-> <<"", "about", "page">>, sourceFile |-> <<>>]}

\* objects whose keys come in the one order given
InOrder(o, order) ==
  \A i, j \in 1..Len(o) : i < j =>
    \E a, b \in 1..Len(order) : a < b /\ order[a] = o[i].k /\ order[b] = o[j].k

FileMaps    == Objects(FileKeys, SizeEntries)
PrevFileMaps == {o \in FileMaps : InOrder(o, <<<<"a.js">>, <<"b.js">>>>)}
PageMaps    == {o \in Objects(PageKeys, EntriesOrZero) : InOrder(o, <<"/page", "/about/page">>)}
RouteMaps   == Objects(RouteKeys, RouteInfos)

\* a document of the extended shape
Doc(g, pages, files, routes, root) ==
  << [k |-> "__global",        v |-> g],
     [k |-> "__pages",         v |-> pages],
     [k |-> "__files",         v |-> files],
     [k |-> "__routes",        v |-> routes],
     [k |-> "__rootMainFiles", v |-> root] >>

\* the current document is outputJson and the extended file; the previous one
\* (or null) is what was loaded, and the base's extended file
DiffInputs(prev, curr) ==
  /\ previousAnalysis = prev
  /\ outputJson = <<curr>>
  /\ extendedFile = writeJson(curr)
  /\ baseExtendedFile = prev

\* the two sides differ in their files, or their pages, or their routes, or
\* globally, or there is no previous side
InitDiff ==
  /\ \/ \E pf \in PrevFileMaps, cf \in FileMaps :
          DiffInputs(<<Doc(ZeroSize, <<>>, pf, <<>>, <<>>)>>,
                     Doc(ZeroSize, <<>>, cf, <<>>, <<>>))
     \/ \E pp \in PageMaps, cp \in PageMaps :
          DiffInputs(<<Doc(ZeroSize, pp, <<>>, <<>>, <<>>)>>,
                     Doc(ZeroSize, cp, <<>>, <<>>, <<>>))
     \/ \E pr \in RouteMaps, cr \in RouteMaps :
          DiffInputs(<<Doc(ZeroSize, <<>>, <<>>, pr, <<>>)>>,
                     Doc(ZeroSize, <<>>, <<>>, cr, <<<<"a.js">>>>))
     \/ \E pg \in EntriesOrZero, cg \in EntriesOrZero :
          DiffInputs(<<Doc(pg, <<>>, <<>>, <<>>, <<>>)>>,
                     Doc(cg, <<>>, <<>>, <<>>, <<>>))
     \/ \E cf \in FileMaps, cr \in RouteMaps :
          DiffInputs(<<>>, Doc(ZeroSize, <<>>, cf, cr, <<>>))
  /\ analysisFile = <<>>
  /\ baseAnalysisFile = <<>>
  /\ commentFile = <<>>
  /\ log = <<>>
  /\ runs = 0
  /\ disk = [f \in DiskFiles |-> <<>>]
  /\ baseDisk = disk
  /\ NoBuild /\ NoMeasure

\* logDiffs(previousAnalysis, outputJson), as line 121 calls it
LogDiffs ==
  /\ log = <<>>
  /\ log' = <<logDiffs(previousAnalysis, outputJson[1])>>
  /\ UNCHANGED <<buildVars, disk, baseDisk, docVars, measureVars,
                 previousAnalysis, outputJson, runs>>

NextDiff == LogDiffs \/ AppendExtendedBundleComment

SpecDiff == InitDiff /\ [][NextDiff]_vars

----------------------------------------------------------------------------
(* Properties.  What a path measures is read off the disk directly here,   *)
(* never through the cache or the aggregator.                              *)

onDisk(scriptPath) ==
  LET p == pathJoin(nextMetaRoot, scriptPath) IN
  IF disk[p] = <<>> THEN ZeroSize
  ELSE [raw |-> disk[p][1].bytes, gzip |-> disk[p][1].deflated]

plus(a, b) == [raw |-> a.raw + b.raw, gzip |-> a.gzip + b.gzip]

RECURSIVE sumOccurrences(_, _)
\* one term per entry of list that is not in excluded
sumOccurrences(list, excluded) ==
  IF list = <<>> THEN ZeroSize
  ELSE IF Head(list) \in excluded THEN sumOccurrences(Tail(list), excluded)
       ELSE plus(onDisk(Head(list)), sumOccurrences(Tail(list), excluded))

RECURSIVE sumDistinct(_)
\* one term per path of the set
sumDistinct(paths) ==
  IF paths = {} THEN ZeroSize
  ELSE LET p == CHOOSE q \in paths : TRUE
       IN plus(onDisk(p), sumDistinct(paths \ {p}))

repeats(list) == \E i, j \in 1..Len(list) : i < j /\ list[i] = list[j]

built == outputJson # <<>>
out(key) == Get(outputJson[1], key)

\* C4: within one run every resolved path is looked up on disk at most once,
\* missing files included; every call returns what the first call for that
\* path returned, and a cache entry keeps the value it was written with
C4_MeasuredOnce ==
  /\ \A f \in DiskFiles : probes[f] <= 1
  /\ \A p \in DOMAIN firstSize : p \in DOMAIN memoryCache /\ memoryCache[p] = firstSize[p]
  /\ lastCall # <<>> =>
       /\ lastCall[1].path \in DOMAIN firstSize
       /\ lastCall[1].size = firstSize[lastCall[1].path]

\* a path missing at its first call, present on disk by now, called again:
\* the latest call still returned <<0, 0>>
C4_Witness ==
  /\ nCalls >= 2
  /\ lastCall # <<>>
  /\ DOMAIN firstSize = {lastCall[1].path}
  /\ lastCall[1].size = <<0, 0>>
  /\ disk[lastCall[1].path] # <<>>

\* C2: every page total is the sum, per occurrence, of the page's listed
\* paths that are not in rootMainFiles; a global path adds nothing
C2_PagesExcludeGlobal ==
  built =>
    \A i \in 1..Len(appDirPages) :
      /\ Has(out("__pages"), appDirPages[i].k)
      /\ Get(out("__pages"), appDirPages[i].k)
           = sumOccurrences(appDirPages[i].v, Range(rootMainFiles))

\* a page that names an existing global file twice, beside a page file
C2_Witness ==
  /\ built
  /\ \E i \in 1..Len(appDirPages) :
       LET l == appDirPages[i].v IN
       /\ Len(l) = 2 /\ l[1] = l[2]
       /\ l[1] \in Range(rootMainFiles)
       /\ onDisk(l[1]).raw > 0
       /\ Get(out("__pages"), appDirPages[i].k) = ZeroSize

\* C3 as stated: the global total counts each distinct path once
C3_DistinctOnce ==
  built => out("__global") = sumDistinct(Range(rootMainFiles))

\* C3 amended: getScriptSizes adds one term per entry of its list, so a path
\* named k times adds its size k times (while it is read from disk once)
C3_PerOccurrence ==
  built =>
    /\ out("__global") = sumOccurrences(rootMainFiles, {})
    /\ \A f \in DiskFiles : probes[f] <= 1

\* an existing file named twice in the global list
C3_Witness ==
  /\ built
  /\ repeats(rootMainFiles)
  /\ out("__global").raw > sumDistinct(Range(rootMainFiles)).raw

namedPaths == Range(rootMainFiles) \cup UNION {Range(appDirPages[i].v) : i \in 1..Len(appDirPages)}

filesHoldNamed ==
  \A p \in namedPaths : Has(out("__files"), p) /\ Get(out("__files"), p) = onDisk(p)

fileEntry(p) == IF Has(out("__files"), p) THEN Get(out("__files"), p) ELSE ZeroSize

RECURSIVE sumEntries(_)
sumEntries(list) ==
  IF list = <<>> THEN ZeroSize ELSE plus(fileEntry(Head(list)), sumEntries(Tail(list)))

RECURSIVE sumEntriesOf(_)
sumEntriesOf(paths) ==
  IF paths = {} THEN ZeroSize
  ELSE LET p == CHOOSE q \in paths : TRUE
       IN plus(fileEntry(p), sumEntriesOf(paths \ {p}))

\* C9 as stated: __files holds every named path with its measured size, and
\* __global is the sum of the __files sizes over the global file set
C9_GlobalOverSet ==
  built => filesHoldNamed /\ out("__global") = sumEntriesOf(Range(rootMainFiles))

\* C9 amended: __files holds every named path with its measured size, and
\* __global is the sum of the __files sizes over the entries of the global
\* list, one term per occurrence
C9_GlobalOverList ==
  built => filesHoldNamed /\ out("__global") = sumEntries(rootMainFiles)

\* a global list with a repeated existing file, and a page naming another path
C9_Witness ==
  /\ built
  /\ repeats(rootMainFiles)
  /\ out("__global").raw > 0
  /\ \E p \in namedPaths : p \notin Range(rootMainFiles)

----------------------------------------------------------------------------
(* Properties of the passes *)

logged == log # <<>>
commented == commentFile # <<>>
fragment == commentFile[Len(commentFile)]

prevOf(key) == Field(previousAnalysis, key, <<>>)
currOf(key) == Field(outputJson, key, <<>>)

keySet(o) == {o[i].k : i \in 1..Len(o)}

\* how often key is the file of an entry of list
count(list, key) == Cardinality({i \in 1..Len(list) : list[i].file = key})

differ(a, b) == a.raw # b.raw \/ a.gzip # b.gzip

\* where the file pass must put key: <<changed, new/added, removed>> counts
place(key, prevFiles, currFiles) ==
  IF ~Has(prevFiles, key) /\ Has(currFiles, key) THEN <<0, 1, 0>>
  ELSE IF Has(prevFiles, key) /\ ~Has(currFiles, key) THEN <<0, 0, 1>>
  ELSE IF Has(prevFiles, key) /\ Has(currFiles, key)
          /\ differ(Get(prevFiles, key), Get(currFiles, key)) THEN <<1, 0, 0>>
  ELSE <<0, 0, 0>>

\* C5: the file pass puts every key of the union in exactly one list, or in
\* none when both sides are equal; a changed entry carries current minus
\* previous.  The same holds of the comment script's three tables.
C5_FilePass ==
  /\ logged =>
       LET pf == prevOf("__files")
           cf == currOf("__files")
           l  == log[1]
       IN /\ \A key \in keySet(pf) \cup keySet(cf) :
               <<count(l.changedFiles, key), count(l.newFiles, key),
                 count(l.removedFiles, key)>> = place(key, pf, cf)
          /\ \A i \in 1..Len(l.changedFiles) :
               LET e == l.changedFiles[i] IN
               /\ e.delta.raw = Get(cf, e.file).raw - Get(pf, e.file).raw
               /\ e.delta.gzip = Get(cf, e.file).gzip - Get(pf, e.file).gzip
          /\ Len(l.changedFiles) + Len(l.newFiles) + Len(l.removedFiles)
               <= Cardinality(keySet(pf) \cup keySet(cf))
  /\ commented =>
       LET bf == Field(baseExtendedFile, "__files", <<>>)
           cf == Field(extendedFile, "__files", <<>>)
           f  == fragment
       IN /\ \A key \in keySet(bf) \cup keySet(cf) :
               <<count(f.changed, key), count(f.added, key), count(f.removed, key)>>
                 = place(key, bf, cf)
          /\ \A i \in 1..Len(f.changed) :
               LET e == f.changed[i] IN
               /\ e.dRaw = Get(cf, e.file).raw - Get(bf, e.file).raw
               /\ e.dGzip = Get(cf, e.file).gzip - Get(bf, e.file).gzip

\* one file changed in raw size only and one file new, both passes run
C5_Witness ==
  /\ logged /\ commented
  /\ Len(log[1].changedFiles) = 1 /\ Len(log[1].newFiles) = 1
  /\ log[1].changedFiles[1].delta.gzip = 0
  /\ Len(fragment.changed) = 1 /\ Len(fragment.added) = 1

pageSize(pages, key) == IF Has(pages, key) THEN Get(pages, key) ELSE ZeroSize

\* how often key is the page of an entry of list
countPage(list, key) == Cardinality({i \in 1..Len(list) : list[i].page = key})

\* C6: a page is in pageChanges, once, exactly when its raw or gzip delta is
\* not zero, a side without the page counting as {0, 0}; the entry carries
\* current minus previous, and pages put nothing in the new or removed lists
C6_PagePass ==
  logged =>
    LET pp == prevOf("__pages")
        cp == currOf("__pages")
        l  == log[1]
    IN /\ \A key \in keySet(pp) \cup keySet(cp) :
            countPage(l.pageChanges, key)
              = IF differ(pageSize(pp, key), pageSize(cp, key)) THEN 1 ELSE 0
       /\ \A i \in 1..Len(l.pageChanges) :
            LET e == l.pageChanges[i] IN
            /\ e.page \in keySet(pp) \cup keySet(cp)
            /\ e.delta.raw = pageSize(cp, e.page).raw - pageSize(pp, e.page).raw
            /\ e.delta.gzip = pageSize(cp, e.page).gzip - pageSize(pp, e.page).gzip
       /\ (prevOf("__files") = <<>> /\ currOf("__files") = <<>>) =>
            l.newFiles = <<>> /\ l.removedFiles = <<>>
       /\ (prevOf("__routes") = <<>> /\ currOf("__routes") = <<>>) =>
            l.newRoutes = <<>> /\ l.removedRoutes = <<>>

\* one page only in the current snapshot, one only in the previous, both with
\* bytes: two page changes and nothing new or removed
C6_Witness ==
  /\ logged
  /\ keySet(prevOf("__pages")) = {"/about/page"}
  /\ keySet(currOf("__pages")) = {"/page"}
  /\ Len(log[1].pageChanges) = 2
  /\ log[1].newFiles = <<>> /\ log[1].removedFiles = <<>>

routesOf(list) == {list[i].route : i \in 1..Len(list)}

\* C7: newRoutes is the current route keys that are not previous ones and
\* removedRoutes the previous ones that are not current, each once, whatever
\* the route infos hold; with no previous snapshot every current route is new
C7_RoutePass ==
  logged =>
    LET pr == keySet(prevOf("__routes"))
        cr == keySet(currOf("__routes"))
        l  == log[1]
    IN /\ routesOf(l.newRoutes) = cr \ pr
       /\ routesOf(l.removedRoutes) = pr \ cr
       /\ Len(l.newRoutes) = Cardinality(cr \ pr)
       /\ Len(l.removedRoutes) = Cardinality(pr \ cr)
       /\ previousAnalysis = <<>> => routesOf(l.newRoutes) = cr /\ l.removedRoutes = <<>>

\* no previous snapshot and two current routes: both are new
C7_Witness ==
  /\ logged
  /\ previousAnalysis = <<>>
  /\ Len(log[1].newRoutes) = 2

\* descending |gzip delta|, ties by descending |raw delta|
byMagnitude(dg, dr) ==
  \A i, j \in 1..Len(dg) : i < j =>
    \/ Abs(dg[i]) > Abs(dg[j])
    \/ Abs(dg[i]) = Abs(dg[j]) /\ Abs(dr[i]) >= Abs(dr[j])

loggedInMagnitudeOrder ==
  LET c == log[1].changedFiles IN
  byMagnitude([i \in 1..Len(c) |-> c[i].delta.gzip], [i \in 1..Len(c) |-> c[i].delta.raw])

tableInMagnitudeOrder ==
  LET c == fragment.changed IN
  byMagnitude([i \in 1..Len(c) |-> c[i].dGzip], [i \in 1..Len(c) |-> c[i].dRaw])

position(keys, key) == CHOOSE i \in 1..Len(keys) : keys[i] = key

----------------------------------------------------------------------------
(* Properties of consecutive runs *)

quiet(l) ==
  /\ l.delta_global = ZeroSize
  /\ l.changedFiles = <<>> /\ l.newFiles = <<>> /\ l.removedFiles = <<>>
  /\ l.pageChanges = <<>>
  /\ l.newRoutes = <<>> /\ l.removedRoutes = <<>>

\* C1: from the second run over an unchanged build on, the previous snapshot
\* loaded holds the global, page, file and route data of the run before, and
\* logDiffs reports no change at all
C1_SecondRunQuiet ==
  runs >= 2 =>
    /\ Field(previousAnalysis, "__global", ZeroSize) = out("__global")
    /\ Field(previousAnalysis, "__pages", <<>>) = out("__pages")
    /\ Field(previousAnalysis, "__files", <<>>) = out("__files")
    /\ Field(previousAnalysis, "__routes", <<>>) = out("__routes")
    /\ quiet(log[1])

bothWritten ==
  /\ analysisFile # <<>> /\ extendedFile # <<>>
  /\ baseAnalysisFile # <<>> /\ baseExtendedFile # <<>>

\* the latest fragment has a row, in the right table, for every file whose
\* size differs between the base run's and the current run's __files
rowsCover ==
  LET bf == Field(baseExtendedFile, "__files", <<>>)
      cf == Field(extendedFile, "__files", <<>>)
  IN \A key \in keySet(bf) \cup keySet(cf) :
       <<count(fragment.changed, key), count(fragment.added, key),
         count(fragment.removed, key)>> = place(key, bf, cf)

\* C10: a fragment written once both runs have written their two documents
\* has one row for every changed, added or removed file
C10_FragmentCoversChanges ==
  [][(bothWritten /\ Len(commentFile') > Len(commentFile)) => rowsCover']_vars

====
